---- MODULE Spec2Model ----
(***************************************************************************)
(* The three experiment notebooks of the repository as one state machine:  *)
(*   FT  experiments/distillation/Factor Transfer/FactorTransfer.ipynb     *)
(*   CN  experiments/pruning/chipnet/trailmet.ipynb, first notebook        *)
(*   BS  experiments/pruning/chipnet/trailmet.ipynb, second notebook       *)
(* A run executes the code cells of one notebook top to bottom ("Run       *)
(* all"); an exception raised by a cell aborts the cells after it.         *)
(* A step is one cell, or one statement group of a cell that holds more    *)
(* than one of the pipeline's steps.  The bodies of compress_model live in *)
(* the trailmet library, which is not part of the sources at hand: they    *)
(* are modelled from the notebooks' markdown and recorded output.          *)
(***************************************************************************)
EXTENDS Integers, Sequences, FiniteSets, TLC

VARIABLES
    nb,             \* the notebook being run: "FT", "CN" or "BS"
    pc,             \* index in Steps(nb) of the step to run next
    status,         \* "running", "failed" (uncaught exception) or "done"
    err,            \* the exception that was raised, "none" before
    ran,            \* the steps started so far, in order
    trainN,         \* environment: size of the downloaded training set
    testN,          \* environment: size of the downloaded test set
    predSeed,       \* FT: selects what the student loaded for evaluation predicts
    yamlDoc,        \* environment: what yaml.safe_load returns for the file on disk
    yamlLines,      \* CN: the text written by %%writefile, NoLines before
    cifar,          \* the bundle returned by DatasetFactory.create_dataset
    loaders,        \* number of batches of the train / val / test loader
    modelsMade,     \* the model objects exist
    weightsBound,   \* the name `weights` / `checkpoint` is bound
    pretrained,     \* load_state_dict has put the fetched weights into the model
    data_loaded,    \* FT, CN: the mapping bound by the configuration cell
    config,         \* BS: the whole parsed document
    kwargs,         \* BS: config['GENERAL'] (the same object), then updated
    constructed,    \* the compression-algorithm object exists
    ctorKwargs,     \* the keyword arguments its constructor received
    ctorPretrained, \* whether the model it received had the weights loaded
    phase,          \* compress_model: "idle", a phase name, "returned"
    epoch,          \* compress_model: number of the current epoch of the phase
    pass,           \* compress_model: "none", "train" or "val"
    batch,          \* compress_model: batches consumed in the current pass
    paraDone,       \* FT: paraphraser epochs finished
    trainSeen,      \* FT: train batches seen in the current student epoch
    epochLog,       \* FT: one record per finished student epoch
    best,           \* FT: best validation accuracy so far
    ckpt,           \* the checkpoint files, by log_dir
    phaseLog,       \* CN: the phase banners printed, in order
    epochsRun,      \* CN: epochs run per phase
    tests,          \* BS: the calls of quantizer.test, in order
    evalLoaded,     \* FT: the student state loaded by the evaluation cell
    keysRead,       \* the bundle keys the data-loader cell subscripted, by role
    workers,        \* live data-loader worker processes
    queued,         \* batches the workers have fetched and nobody took yet
    wqDone,         \* BS: layers whose weights have been quantized
    aqDone,         \* BS: layers whose activations have been quantized
    evalStep,       \* FT: test batches visited by the evaluation loop
    preds,          \* FT: the list `preds`, one array per visited batch
    valid_labels,   \* FT: the list `valid_labels`, one array per visited batch;
                    \*     the concatenated array once the loop is over
    predictions,    \* FT: the array `predictions`
    score           \* FT: the value bound to `score`, NoScore before

vars == <<nb, pc, status, err, ran, trainN, yamlDoc, yamlLines, cifar, loaders,
          modelsMade, weightsBound, pretrained, data_loaded, config, kwargs,
          constructed, ctorKwargs, ctorPretrained, phase, epoch, pass, batch,
          paraDone, trainSeen, epochLog, best, ckpt, phaseLog, epochsRun,
          tests, evalLoaded, testN, predSeed, keysRead, workers, queued,
          wqDone, aqDone, evalStep, preds, valid_labels, predictions, score>>

envVars == <<nb, trainN, testN, yamlDoc>>
cfgVars == <<data_loaded, config, kwargs>>
modelVars == <<modelsMade, weightsBound, pretrained>>
dataVars == <<cifar, loaders>>
ctorVars == <<constructed, ctorKwargs, ctorPretrained>>
loopVars == <<phase, epoch, pass, batch>>
ftVars == <<paraDone, trainSeen, epochLog, best, ckpt, evalLoaded>>
cnVars == <<yamlLines, phaseLog, epochsRun>>
qVars == <<wqDone, aqDone>>
evalVars == <<evalStep, preds, valid_labels, predictions, score, predSeed>>
wkVars == <<workers, queued>>

----------------------------------------------------------------------------
(* Bounds of the model                                                     *)

MaxEpochs == 2
MaxParaEpochs == 2
MaxAcc == 2
\* Layers of the model BitSplit quantizes (the recorded run: 54 and 50).
NumWQLayers == 2
NumAQLayers == 2
\* Classes of the classification task (the notebooks: 10 or 100).
NumClasses == 3

Notebooks == {"FT", "CN", "BS"}
TrainSetSizes == {300, 1400}
\* (BitSplit runs are told apart by their configuration; their split sizes
\* are varied in SplitSpec)
BS_TrainSetSizes == {1400}
LogDirs == {"ft_a", "ft_b"}
CfgValues == {2, 4}

(* Program constants                                                       *)

FT_BatchSize == 128
CN_BatchSize == 64
BS_BatchSize == 128
FT_ValPercent == 10
CN_ValPercent == 20
BS_ValPercent == 20
CalibOverride == 2
FT_NumWorkers == 2
CN_NumWorkers == 0
BS_NumWorkers == 0

\* The downloaded test set.
TestSetSize == 200
PredSeeds == {0, 1}
NoScore == [correct |-> -1, total |-> -1]

NoDict == [k \in {} |-> 0]
NoLines == <<>>
NoCkpt == [exists |-> FALSE, epoch |-> 0, acc |-> 0]

----------------------------------------------------------------------------
(* The steps of each notebook, in cell order                               *)

FT_Steps_ModelsFirst ==
    << "FT_CreateModels", "FT_CreateDataset", "FT_DefineLoaders",
       "FT_LoadTeacher", "FT_LoadConfig", "FT_Construct", "FT_Compress",
       "FT_Evaluate" >>

FT_Steps ==
    << "FT_CreateDataset", "FT_DefineLoaders", "FT_CreateModels",
       "FT_LoadTeacher", "FT_LoadConfig", "FT_Construct", "FT_Compress",
       "FT_Evaluate" >>

CN_Steps ==
    << "CN_WriteYaml", "CN_LoadConfig", "CN_CreateModel", "CN_FetchWeights",
       "CN_CreateDataset", "CN_DefineLoaders", "CN_Construct", "CN_Compress" >>

\* (the accuracy of the full-precision model measured after compress_model)
BS_Steps_TestAfterCompress ==
    << "BS_CreateDataset", "BS_DefineLoaders", "BS_MakeModel",
       "BS_LoadWeights", "BS_LoadConfig", "BS_Construct", "BS_Compress",
       "BS_TestBefore", "BS_TestAfter" >>

BS_Steps ==
    << "BS_CreateDataset", "BS_DefineLoaders", "BS_MakeModel",
       "BS_LoadWeights", "BS_LoadConfig", "BS_Construct", "BS_TestBefore",
       "BS_Compress", "BS_TestAfter" >>

Steps(n) == CASE n = "FT" -> FT_Steps
              [] n = "CN" -> CN_Steps
              [] n = "BS" -> BS_Steps

At(s) == status = "running" /\ pc <= Len(Steps(nb)) /\ Steps(nb)[pc] = s

\* The cell returned normally: the kernel runs the next one.
Advance ==
    /\ pc' = pc + 1
    /\ status' = IF pc + 1 > Len(Steps(nb)) THEN "done" ELSE "running"
    /\ err' = err

\* (a cell that swallowed the exception would let the run go on)
Raise_Swallowed(e) ==
    /\ pc' = pc + 1
    /\ status' = IF pc + 1 > Len(Steps(nb)) THEN "done" ELSE "running"
    /\ err' = e

\* No cell has a try/except: the exception reaches the kernel, which marks
\* the cell failed and drops the cells queued after it.
Raise(e) ==
    /\ pc' = pc
    /\ status' = "failed"
    /\ err' = e

Started(s) == ran' = Append(ran, s)

----------------------------------------------------------------------------
(* Helpers                                                                 *)

\* DatasetFactory.create_dataset: the val split takes val_fraction of the
\* training set, the train split the rest.
ValSize(n, pct) == (n * pct) \div 100
TrainSize(n, pct) == n - ValSize(n, pct)

\* (the count with drop_last = True: the last, short batch is left out)
NumBatches_DropLast(size, bs) == size \div bs

\* len(DataLoader(dataset, batch_size, sampler)) with drop_last left False.
NumBatches(size, bs) == (size + bs - 1) \div bs

Bundle(n, t, pct) ==
    [train_size |-> TrainSize(n, pct), val_size |-> ValSize(n, pct),
     test_size |-> t]

MakeLoaders(b, bs, nw) ==
    [train |-> NumBatches(b.train_size, bs),
     val   |-> NumBatches(b.val_size, bs),
     test  |-> NumBatches(b.test_size, bs),
     num_workers |-> nw]

NoBundle == [train_size |-> 0, val_size |-> 0, test_size |-> 0]
NoLoaders == [train |-> 0, val |-> 0, test |-> 0, num_workers |-> 0]

\* The subscripts the data-loader cell applies to the bundle: for each split
\* the key of its dataset and the key of its sampler.
Splits == {"train", "val", "test"}
NoKeys ==
    [dataset |-> [s \in Splits |-> "none"], sampler |-> [s \in Splits |-> "none"]]
FT_Keys ==
    [dataset |-> [train |-> "train_dataset", val |-> "val_dataset",
                  test |-> "test_dataset"],
     sampler |-> [train |-> "train_sampler", val |-> "val_sampler",
                  test |-> "test_sampler"]]
CN_Keys ==
    [dataset |-> [train |-> "train_dataset", val |-> "val_dataset",
                  test |-> "test_dataset"],
     sampler |-> [train |-> "train_sampler", val |-> "val_sampler",
                  test |-> "test_sampler"]]
BS_Keys ==
    [dataset |-> [train |-> "train", val |-> "val", test |-> "test"],
     sampler |-> [train |-> "train_sampler", val |-> "val_sampler",
                  test |-> "test_sampler"]]

\* DataLoader with num_workers = n: iterating it starts n worker processes,
\* which fetch batches ahead of the loop; the loop takes a fetched batch,
\* or loads the batch itself when n = 0; the workers end with the iteration.
PrefetchPerWorker == 1

DL_Spawn == workers' = loaders.num_workers /\ queued' = 0

DL_Take ==
    /\ workers = 0 \/ queued > 0
    /\ queued' = IF workers > 0 THEN queued - 1 ELSE queued
    /\ workers' = workers

DL_Shutdown == workers' = 0 /\ queued' = 0

\* (an update that keeps the entry already present)
Overlay_KeepsOld(g, o) ==
    [k \in (DOMAIN g) \cup (DOMAIN o) |-> IF k \in DOMAIN g THEN g[k] ELSE o[k]]

\* dict.update: the entries of o laid over those of g.
Overlay(g, o) ==
    [k \in (DOMAIN g) \cup (DOMAIN o) |-> IF k \in DOMAIN o THEN o[k] ELSE g[k]]

\* d[k] = v for a dict d.
SetKey(d, k, v) ==
    [j \in (DOMAIN d) \cup {k} |-> IF j = k THEN v ELSE d[j]]

----------------------------------------------------------------------------
(* The YAML files                                                          *)

\* FT: ./resnet50-resnet18.yaml as parsed.  The keys that steer the run are
\* kept; the numeric hyper-parameters (LR, BETA, ...) are left out.
FT_Docs ==
    { [DISTILL_ARGS |-> [EPOCHS |-> e], PARAPHRASER |-> [EPOCHS |-> p],
       log_dir |-> d, cuda_id |-> 0] :
        e \in 0..MaxEpochs, p \in 0..MaxParaEpochs, d \in LogDirs }

\* BS: ./bitsplit_config.yaml as parsed: a GENERAL section and one W_ARGS
\* section per supported weight budget.
BS_GeneralKeys == {"W_BUDGET", "CALIB_BATCHES", "W_BITS"}
BS_OverlayKeys == {"CALIB_BATCHES", "W_BITS"}
Dicts(keys) == UNION { [S -> CfgValues] : S \in SUBSET keys }
BS_Docs ==
    { [GENERAL |-> g, W_ARGS |-> w] :
        g \in Dicts(BS_GeneralKeys),
        w \in UNION { [B -> Dicts(BS_OverlayKeys)] : B \in SUBSET CfgValues } }

\* CN: the text the notebook writes itself, line by line.
Section(k) == [indent |-> 0, key |-> k, val |-> 0]
Entry(k, v) == [indent |-> 4, key |-> k, val |-> v]
Blank == [indent |-> 0, key |-> "", val |-> 0]

\* (the file with one finetuning epoch)
CN_YamlText_ShortFinetune ==
    << Section("CHIPNET_ARGS"), Entry("A", 10), Blank,
       Section("PRETRAIN"), Entry("EPOCHS", 1), Blank,
       Section("PRUNE"), Entry("EPOCHS", 1), Blank,
       Section("FINETUNE"), Entry("EPOCHS", 1) >>

CN_YamlText ==
    << Section("CHIPNET_ARGS"), Entry("A", 10), Blank,
       Section("PRETRAIN"), Entry("EPOCHS", 1), Blank,
       Section("PRUNE"), Entry("EPOCHS", 1), Blank,
       Section("FINETUNE"), Entry("EPOCHS", 2) >>

\* yaml.safe_load on a two-level block mapping: a line at indent 0 opens a
\* section, the indented lines up to the next section are its entries, a
\* blank line is skipped, the last occurrence of a key wins.
SetMax(S) == CHOOSE x \in S : \A y \in S : y <= x
SetMin(S) == CHOOSE x \in S : \A y \in S : x <= y
TopIdx(lines) ==
    { i \in 1..Len(lines) : lines[i].key # "" /\ lines[i].indent = 0 }
SectionEnd(lines, i) ==
    SetMin({ j \in TopIdx(lines) : j > i } \cup {Len(lines) + 1})
Children(lines, i) ==
    { j \in (i + 1)..(SectionEnd(lines, i) - 1) :
        lines[j].key # "" /\ lines[j].indent > 0 }
SectionDict(lines, i) ==
    [ k \in { lines[j].key : j \in Children(lines, i) } |->
        lines[SetMax({ j \in Children(lines, i) : lines[j].key = k })].val ]
ParseYaml(lines) ==
    [ k \in { lines[i].key : i \in TopIdx(lines) } |->
        SectionDict(lines, SetMax({ i \in TopIdx(lines) : lines[i].key = k })) ]

----------------------------------------------------------------------------
(* Initial state: a fresh kernel, the files of the environment on disk     *)

\* A kernel in which no cell has run yet.
Fresh ==
    /\ pc = 1
    /\ status = "running"
    /\ err = "none"
    /\ ran = <<>>
    /\ yamlLines = NoLines
    /\ cifar = NoBundle
    /\ loaders = NoLoaders
    /\ modelsMade = FALSE
    /\ weightsBound = FALSE
    /\ pretrained = FALSE
    /\ data_loaded = NoDict
    /\ config = NoDict
    /\ kwargs = NoDict
    /\ constructed = FALSE
    /\ ctorKwargs = NoDict
    /\ ctorPretrained = FALSE
    /\ phase = "idle"
    /\ epoch = 0
    /\ pass = "none"
    /\ batch = 0
    /\ paraDone = 0
    /\ trainSeen = 0
    /\ epochLog = <<>>
    /\ best = 0
    /\ ckpt = [d \in LogDirs |-> NoCkpt]
    /\ phaseLog = <<>>
    /\ epochsRun = [p \in {"PRETRAIN", "PRUNE", "FINETUNE"} |-> 0]
    /\ tests = <<>>
    /\ evalLoaded = NoCkpt
    /\ keysRead = NoKeys
    /\ workers = 0
    /\ queued = 0
    /\ wqDone = 0
    /\ aqDone = 0
    /\ evalStep = 0
    /\ preds = <<>>
    /\ valid_labels = <<>>
    /\ predictions = <<>>
    /\ score = NoScore
    /\ predSeed = 0


Init ==
    /\ nb \in Notebooks
    /\ trainN \in IF nb = "BS" THEN BS_TrainSetSizes ELSE TrainSetSizes
    /\ testN = TestSetSize
    /\ yamlDoc \in CASE nb = "FT" -> FT_Docs
                     [] nb = "BS" -> BS_Docs
                     [] nb = "CN" -> {NoDict}
    /\ Fresh

----------------------------------------------------------------------------
(* FactorTransfer notebook                                                 *)

\* cell "Load Dataset": DatasetFactory.create_dataset(val_fraction = 0.1)
FT_CreateDataset ==
    /\ At("FT_CreateDataset")
    /\ Started("FT_CreateDataset")
    /\ \/ /\ cifar' = Bundle(trainN, testN, FT_ValPercent)
          /\ Advance
       \/ /\ Raise("RuntimeError")
          /\ UNCHANGED cifar
    /\ UNCHANGED <<keysRead, wkVars, qVars, evalVars,
                   envVars, cfgVars, modelVars, loaders, ctorVars, loopVars,
                   ftVars, cnVars, tests>>

\* cell "Define data loaders": three DataLoader(..., batch_size=128)
FT_DefineLoaders ==
    /\ At("FT_DefineLoaders")
    /\ Started("FT_DefineLoaders")
    /\ loaders' = MakeLoaders(cifar, FT_BatchSize, FT_NumWorkers)
    /\ keysRead' = FT_Keys
    /\ Advance
    /\ UNCHANGED <<wkVars, qVars, evalVars,
                   envVars, cfgVars, modelVars, cifar, ctorVars, loopVars,
                   ftVars, cnVars, tests>>

\* cell "Create the teacher and student models"
FT_CreateModels ==
    /\ At("FT_CreateModels")
    /\ Started("FT_CreateModels")
    /\ modelsMade' = TRUE
    /\ Advance
    /\ UNCHANGED <<keysRead, wkVars, qVars, evalVars,
                   envVars, cfgVars, weightsBound, pretrained, dataVars,
                   ctorVars, loopVars, ftVars, cnVars, tests>>

\* cell "Load Pretrained Teacher Model": torch.load, then load_state_dict
FT_LoadTeacher ==
    /\ At("FT_LoadTeacher")
    /\ Started("FT_LoadTeacher")
    /\ \/ /\ weightsBound' = TRUE
          /\ pretrained' = TRUE
          /\ Advance
       \/ /\ Raise("FileNotFoundError")
          /\ UNCHANGED <<weightsBound, pretrained>>
       \/ /\ weightsBound' = TRUE
          /\ Raise("RuntimeError")
          /\ UNCHANGED pretrained
    /\ UNCHANGED <<keysRead, wkVars, qVars, evalVars,
                   envVars, cfgVars, modelsMade, dataVars, ctorVars, loopVars,
                   ftVars, cnVars, tests>>

\* cell: with open("./resnet50-resnet18.yaml") ...: yaml.safe_load
FT_LoadConfig ==
    /\ At("FT_LoadConfig")
    /\ Started("FT_LoadConfig")
    /\ \/ /\ data_loaded' = yamlDoc
          /\ Advance
       \/ /\ Raise("FileNotFoundError")
          /\ UNCHANGED data_loaded
    /\ UNCHANGED <<keysRead, wkVars, qVars, evalVars,
                   envVars, config, kwargs, modelVars, dataVars, ctorVars,
                   loopVars, ftVars, cnVars, tests>>

\* (a constructor call that overrides one of the file's entries)
FT_Construct_Override ==
    /\ At("FT_Construct")
    /\ Started("FT_Construct")
    /\ constructed' = TRUE
    /\ ctorKwargs' = [data_loaded EXCEPT !.cuda_id = 1]
    /\ ctorPretrained' = pretrained
    /\ Advance
    /\ UNCHANGED <<keysRead, wkVars, qVars, evalVars,
                   envVars, cfgVars, modelVars, dataVars, loopVars, ftVars,
                   cnVars, tests>>

\* cell: FactorTransfer(teacher_model, student_model, dataloaders, **data_loaded)
FT_Construct ==
    /\ At("FT_Construct")
    /\ Started("FT_Construct")
    /\ constructed' = TRUE
    /\ ctorKwargs' = data_loaded
    /\ ctorPretrained' = pretrained
    /\ Advance
    /\ UNCHANGED <<keysRead, wkVars, qVars, evalVars,
                   envVars, cfgVars, modelVars, dataVars, loopVars, ftVars,
                   cnVars, tests>>

----------------------------------------------------------------------------
(* FactorTransfer.compress_model (trailmet library, modelled from the      *)
(* notebook's markdown and the recorded output of the cell)                *)

FT_ParaEpochs == ctorKwargs.PARAPHRASER.EPOCHS
FT_StudentEpochs == ctorKwargs.DISTILL_ARGS.EPOCHS

\* (loops that stop one epoch early / run one epoch more)
FT_MoreParaEpochs_StopsEarly == epoch + 1 < FT_ParaEpochs
FT_MoreStudentEpochs_OneMore == epoch <= FT_StudentEpochs

\* for epoch in range(EPOCHS) of the paraphraser / of the student
FT_MoreParaEpochs == epoch < FT_ParaEpochs
FT_MoreStudentEpochs == epoch < FT_StudentEpochs

\* (a checkpoint written after every epoch)
FT_Improves_Always(acc) == TRUE

\* the test that guards "**Saving checkpoint**"
FT_Improves(acc) == acc > best

\* (compress_model handed to a thread of its own: the cell returns at once)
FT_CompressModel_InBackground ==
    /\ At("FT_Compress")
    /\ phase = "idle"
    /\ Started("FT_Compress")
    /\ phase' = "paraphraser"
    /\ epoch' = 0
    /\ pass' = "none"
    /\ batch' = 0
    /\ Advance
    /\ UNCHANGED <<keysRead, wkVars, qVars, evalVars,
                   envVars, cfgVars, modelVars, dataVars,
                   ctorVars, ftVars, cnVars, tests>>

\* cell: distillation_box.compress_model(); prints =====TRAINING PARAPHRASER=====
FT_CompressModel ==
    /\ At("FT_Compress")
    /\ phase = "idle"
    /\ Started("FT_Compress")
    /\ phase' = "paraphraser"
    /\ epoch' = 0
    /\ pass' = "none"
    /\ batch' = 0
    /\ UNCHANGED <<keysRead, wkVars, qVars, evalVars,
                   pc, status, err, envVars, cfgVars, modelVars, dataVars,
                   ctorVars, ftVars, cnVars, tests>>

FT_ParaEpochStart ==
    /\ At("FT_Compress")
    /\ phase = "paraphraser" /\ pass = "none"
    /\ FT_MoreParaEpochs
    /\ epoch' = epoch + 1
    /\ pass' = "train"
    /\ batch' = 0
    /\ DL_Spawn
    /\ UNCHANGED <<keysRead, qVars, evalVars,
                   pc, status, err, ran, phase, envVars, cfgVars, modelVars,
                   dataVars, ctorVars, ftVars, cnVars, tests>>

FT_ParaBatch ==
    /\ At("FT_Compress")
    /\ phase = "paraphraser" /\ pass = "train"
    /\ batch < loaders.train
    /\ batch' = batch + 1
    /\ DL_Take
    /\ UNCHANGED <<keysRead, qVars, evalVars,
                   pc, status, err, ran, phase, epoch, pass, envVars, cfgVars,
                   modelVars, dataVars, ctorVars, ftVars, cnVars, tests>>

\* prints "Epoch n | Train loss"
FT_ParaEpochEnd ==
    /\ At("FT_Compress")
    /\ phase = "paraphraser" /\ pass = "train"
    /\ batch = loaders.train
    /\ pass' = "none"
    /\ paraDone' = paraDone + 1
    /\ DL_Shutdown
    /\ UNCHANGED <<keysRead, qVars, evalVars,
                   pc, status, err, ran, phase, epoch, batch, envVars, cfgVars,
                   modelVars, dataVars, ctorVars, trainSeen, epochLog, best,
                   ckpt, evalLoaded, cnVars, tests>>

\* prints =====TRAINING STUDENT NETWORK=====
FT_StartStudent ==
    /\ At("FT_Compress")
    /\ phase = "paraphraser" /\ pass = "none"
    /\ ~FT_MoreParaEpochs
    /\ phase' = "student"
    /\ epoch' = 0
    /\ best' = 0
    /\ UNCHANGED <<keysRead, wkVars, qVars, evalVars,
                   pc, status, err, ran, pass, batch, envVars, cfgVars,
                   modelVars, dataVars, ctorVars, paraDone, trainSeen,
                   epochLog, ckpt, evalLoaded, cnVars, tests>>

\* prints "Epoch: n"
FT_StudentEpochStart ==
    /\ At("FT_Compress")
    /\ phase = "student" /\ pass = "none"
    /\ FT_MoreStudentEpochs
    /\ epoch' = epoch + 1
    /\ pass' = "train"
    /\ batch' = 0
    /\ trainSeen' = 0
    /\ DL_Spawn
    /\ UNCHANGED <<keysRead, qVars, evalVars,
                   pc, status, err, ran, phase, envVars, cfgVars, modelVars,
                   dataVars, ctorVars, paraDone, epochLog, best, ckpt,
                   evalLoaded, cnVars, tests>>

FT_StudentTrainBatch ==
    /\ At("FT_Compress")
    /\ phase = "student" /\ pass = "train"
    /\ batch < loaders.train
    /\ batch' = batch + 1
    /\ trainSeen' = trainSeen + 1
    /\ DL_Take
    /\ UNCHANGED <<keysRead, qVars, evalVars,
                   pc, status, err, ran, phase, epoch, pass, envVars, cfgVars,
                   modelVars, dataVars, ctorVars, paraDone, epochLog, best,
                   ckpt, evalLoaded, cnVars, tests>>

FT_StudentTrainEnd ==
    /\ At("FT_Compress")
    /\ phase = "student" /\ pass = "train"
    /\ batch = loaders.train
    /\ pass' = "val"
    /\ batch' = 0
    /\ DL_Spawn
    /\ UNCHANGED <<keysRead, qVars, evalVars,
                   pc, status, err, ran, phase, epoch, envVars, cfgVars,
                   modelVars, dataVars, ctorVars, ftVars, cnVars, tests>>

FT_StudentValBatch ==
    /\ At("FT_Compress")
    /\ phase = "student" /\ pass = "val"
    /\ batch < loaders.val
    /\ batch' = batch + 1
    /\ DL_Take
    /\ UNCHANGED <<keysRead, qVars, evalVars,
                   pc, status, err, ran, phase, epoch, pass, envVars, cfgVars,
                   modelVars, dataVars, ctorVars, ftVars, cnVars, tests>>

\* the validation result of the epoch is known; the checkpoint is written
\* to ./checkpoints/<log_dir>.pth when it improves on the best so far
FT_StudentEpochEnd ==
    /\ At("FT_Compress")
    /\ phase = "student" /\ pass = "val"
    /\ batch = loaders.val
    /\ \E acc \in 0..MaxAcc :
          /\ epochLog' = Append(epochLog,
                [epoch |-> epoch, train |-> trainSeen, val |-> batch,
                 acc |-> acc, saved |-> FT_Improves(acc)])
          /\ IF FT_Improves(acc)
               THEN /\ best' = acc
                    /\ ckpt' = [ckpt EXCEPT ![ctorKwargs.log_dir] =
                                   [exists |-> TRUE, epoch |-> epoch, acc |-> acc]]
               ELSE UNCHANGED <<best, ckpt>>
    /\ pass' = "none"
    /\ DL_Shutdown
    /\ UNCHANGED <<keysRead, qVars, evalVars,
                   pc, status, err, ran, phase, epoch, batch, envVars, cfgVars,
                   modelVars, dataVars, ctorVars, paraDone, trainSeen,
                   evalLoaded, cnVars, tests>>

FT_CompressReturn ==
    /\ At("FT_Compress")
    /\ phase = "student" /\ pass = "none"
    /\ ~FT_MoreStudentEpochs
    /\ phase' = "returned"
    /\ Advance
    /\ UNCHANGED <<keysRead, wkVars, qVars, evalVars,
                   ran, epoch, pass, batch, envVars, cfgVars, modelVars,
                   dataVars, ctorVars, ftVars, cnVars, tests>>

\* The test set as the evaluation cell sees it.  Samples are numbered in
\* the order the test loader yields them; a sample carries its number along
\* so that a prediction can be traced to the sample it was computed from.
Classes == 0..(NumClasses - 1)

Label(i) == i % NumClasses

\* student_model(images): one score per class for sample i, as computed by
\* the student state the cell loaded
StudentOutput(i) ==
    [c \in Classes |-> (i * (c + 2) + predSeed * c + evalLoaded.epoch) % 4]

\* softmax(1): every score becomes 2^score over the sum of the row (base 2
\* in the place of e keeps the numbers whole)
RECURSIVE SumPow(_, _)
SumPow(x, cs) ==
    IF cs = {} THEN 0
    ELSE LET c == CHOOSE d \in cs : TRUE IN 2^(x[c]) + SumPow(x, cs \ {c})

Softmax(x) == [c \in DOMAIN x |-> [num |-> 2^(x[c]), den |-> SumPow(x, DOMAIN x)]]

\* (the class of the lowest probability)
Argmax_Lowest(p) ==
    CHOOSE c \in DOMAIN p :
       /\ \A d \in DOMAIN p : p[d].num >= p[c].num
       /\ \A d \in DOMAIN p : d < c => p[d].num > p[c].num

\* argmax(1): the first class of the highest probability
Argmax(p) ==
    CHOOSE c \in DOMAIN p :
       /\ \A d \in DOMAIN p : p[d].num <= p[c].num
       /\ \A d \in DOMAIN p : d < c => p[d].num < p[c].num

\* np.concatenate: the arrays of the list one after the other
RECURSIVE Concatenate(_)
Concatenate(l) == IF l = <<>> THEN <<>> ELSE Head(l) \o Concatenate(Tail(l))

\* accuracy_score(y_true, y_pred): the fraction of positions that agree,
\* kept as numerator and denominator
AccuracyScore(y_true, y_pred) ==
    [correct |-> Cardinality({i \in 1..Len(y_true) : y_true[i] = y_pred[i]}),
     total |-> Len(y_true)]

\* the samples of the k-th batch the test loader yields
TestBatch(k) ==
    LET first == (k - 1) * FT_BatchSize
        size == IF k * FT_BatchSize <= testN THEN FT_BatchSize ELSE testN - first
    IN [j \in 1..size |-> first + j]

\* cell "Evaluate student model on test set": the checkpoint named by
\* data_loaded['log_dir'] is loaded into the student, the two lists are
\* bound and the loop over test_loader starts
FT_Evaluate ==
    /\ At("FT_Evaluate")
    /\ ~evalLoaded.exists
    /\ Started("FT_Evaluate")
    /\ IF ckpt[data_loaded.log_dir].exists
         THEN /\ evalLoaded' = ckpt[data_loaded.log_dir]
              /\ preds' = <<>>
              /\ valid_labels' = <<>>
              /\ evalStep' = 0
              /\ predSeed' \in PredSeeds
              /\ DL_Spawn
              /\ UNCHANGED <<pc, status, err>>
         ELSE /\ Raise("FileNotFoundError")
              /\ UNCHANGED <<evalLoaded, preds, valid_labels, evalStep,
                             predSeed, wkVars>>
    /\ UNCHANGED <<keysRead, qVars, predictions, score,
                   envVars, cfgVars, modelVars, dataVars, ctorVars, loopVars,
                   paraDone, trainSeen, epochLog, best, ckpt, cnVars, tests>>

\* one iteration of "for step, (images, labels) in enumerate(test_loader)"
FT_EvalBatch ==
    /\ At("FT_Evaluate")
    /\ evalLoaded.exists
    /\ evalStep < loaders.test
    /\ DL_Take
    /\ LET images == TestBatch(evalStep + 1)
           labels == [j \in DOMAIN images |-> [id |-> images[j], y |-> Label(images[j])]]
           y_preds == [j \in DOMAIN images |->
                          [id |-> images[j], p |-> Softmax(StudentOutput(images[j]))]]
       IN /\ preds' = Append(preds, y_preds)
          /\ valid_labels' = Append(valid_labels, labels)
    /\ evalStep' = evalStep + 1
    /\ UNCHANGED <<keysRead, qVars, predictions, score, predSeed,
                   pc, status, err, ran, envVars, cfgVars, modelVars, dataVars,
                   ctorVars, loopVars, ftVars, cnVars, tests>>

\* the loop is over: the two lists are concatenated and score is computed
FT_EvalScore ==
    /\ At("FT_Evaluate")
    /\ evalLoaded.exists
    /\ evalStep = loaders.test
    /\ LET ps == Concatenate(preds)
           ls == Concatenate(valid_labels)
       IN /\ predictions' = ps
          /\ valid_labels' = ls
          /\ score' = AccuracyScore([i \in DOMAIN ls |-> ls[i].y],
                                    [i \in DOMAIN ps |-> Argmax(ps[i].p)])
    /\ DL_Shutdown
    /\ Advance
    /\ UNCHANGED <<keysRead, qVars, evalStep, preds, predSeed,
                   ran, envVars, cfgVars, modelVars, dataVars, ctorVars,
                   loopVars, ftVars, cnVars, tests>>

\* a data-loader worker process puts the next batch of the loader that is
\* being iterated into the queue; it touches nothing of the notebook
DL_Iterated ==
    CASE pass \in {"train", "val"} -> [len |-> loaders[pass], taken |-> batch]
      [] pass = "none" /\ At("FT_Evaluate") /\ evalLoaded.exists ->
            [len |-> loaders.test, taken |-> evalStep]
      [] OTHER -> [len |-> 0, taken |-> 0]

DL_WorkerFetch ==
    /\ status = "running"
    /\ workers > 0
    /\ queued < workers * PrefetchPerWorker
    /\ DL_Iterated.taken + queued < DL_Iterated.len
    /\ queued' = queued + 1
    /\ UNCHANGED <<keysRead, qVars, evalVars, workers,
                   pc, status, err, ran, envVars, cfgVars, modelVars, dataVars,
                   ctorVars, loopVars, ftVars, cnVars, tests>>

----------------------------------------------------------------------------
(* ChipNet notebook                                                        *)

\* cell: %%writefile experiments/chipnet/resnet50_cifar10.yaml
CN_WriteYaml ==
    /\ At("CN_WriteYaml")
    /\ Started("CN_WriteYaml")
    /\ yamlLines' = CN_YamlText
    /\ Advance
    /\ UNCHANGED <<keysRead, wkVars, qVars, evalVars,
                   envVars, cfgVars, modelVars, dataVars, ctorVars, loopVars,
                   ftVars, phaseLog, epochsRun, tests>>

\* cell: with open(os.path.join(root, "resnet50_cifar10.yaml")): yaml.safe_load
CN_LoadConfig ==
    /\ At("CN_LoadConfig")
    /\ Started("CN_LoadConfig")
    /\ data_loaded' = ParseYaml(yamlLines)
    /\ Advance
    /\ UNCHANGED <<keysRead, wkVars, qVars, evalVars,
                   envVars, config, kwargs, modelVars, dataVars, ctorVars,
                   loopVars, ftVars, cnVars, tests>>

\* cell: model = ModelsFactory.create_model('resnet18', 10, False, insize=32)
CN_CreateModel ==
    /\ At("CN_CreateModel")
    /\ Started("CN_CreateModel")
    /\ modelsMade' = TRUE
    /\ Advance
    /\ UNCHANGED <<keysRead, wkVars, qVars, evalVars,
                   envVars, cfgVars, weightsBound, pretrained, dataVars,
                   ctorVars, loopVars, ftVars, cnVars, tests>>

\* cell: weights = load_state_dict_from_url(pretrained_weights); the state
\* dict is bound to `weights` and no cell hands it to the model
CN_FetchWeights ==
    /\ At("CN_FetchWeights")
    /\ Started("CN_FetchWeights")
    /\ \/ /\ weightsBound' = TRUE
          /\ Advance
       \/ /\ Raise("URLError")
          /\ UNCHANGED weightsBound
    /\ UNCHANGED <<keysRead, wkVars, qVars, evalVars,
                   envVars, cfgVars, modelsMade, pretrained, dataVars,
                   ctorVars, loopVars, ftVars, cnVars, tests>>

\* cell: DatasetFactory.create_dataset(val_fraction = 0.2)
CN_CreateDataset ==
    /\ At("CN_CreateDataset")
    /\ Started("CN_CreateDataset")
    /\ \/ /\ cifar' = Bundle(trainN, testN, CN_ValPercent)
          /\ Advance
       \/ /\ Raise("RuntimeError")
          /\ UNCHANGED cifar
    /\ UNCHANGED <<keysRead, wkVars, qVars, evalVars,
                   envVars, cfgVars, modelVars, loaders, ctorVars, loopVars,
                   ftVars, cnVars, tests>>

\* cell: three DataLoader(..., batch_size=64)
CN_DefineLoaders ==
    /\ At("CN_DefineLoaders")
    /\ Started("CN_DefineLoaders")
    /\ loaders' = MakeLoaders(cifar, CN_BatchSize, CN_NumWorkers)
    /\ keysRead' = CN_Keys
    /\ Advance
    /\ UNCHANGED <<wkVars, qVars, evalVars,
                   envVars, cfgVars, modelVars, cifar, ctorVars, loopVars,
                   ftVars, cnVars, tests>>

\* cell: a = ChipNet(model, {...loaders...}, **data_loaded)
CN_Construct ==
    /\ At("CN_Construct")
    /\ Started("CN_Construct")
    /\ constructed' = TRUE
    /\ ctorKwargs' = data_loaded
    /\ ctorPretrained' = pretrained
    /\ Advance
    /\ UNCHANGED <<keysRead, wkVars, qVars, evalVars,
                   envVars, cfgVars, modelVars, dataVars, loopVars, ftVars,
                   cnVars, tests>>

(* ChipNet.compress_model (trailmet library, modelled from the recorded    *)
(* output of the cell)                                                     *)

CN_Phases == << "PRETRAIN", "PRUNE", "FINETUNE" >>
CN_PhaseEpochs(p) == ctorKwargs[p]["EPOCHS"]
CN_InPhase == phase \in {"PRETRAIN", "PRUNE", "FINETUNE"}
CN_PhaseIndex(p) == CHOOSE i \in 1..Len(CN_Phases) : CN_Phases[i] = p

\* cell: a.compress_model(); prints "starting pretraining"
CN_CompressModel ==
    /\ At("CN_Compress")
    /\ phase = "idle"
    /\ Started("CN_Compress")
    /\ phase' = CN_Phases[1]
    /\ epoch' = 0
    /\ phaseLog' = Append(phaseLog, [phase |-> CN_Phases[1], what |-> "starting"])
    /\ UNCHANGED <<keysRead, wkVars, qVars, evalVars,
                   pc, status, err, pass, batch, envVars, cfgVars, modelVars,
                   dataVars, ctorVars, ftVars, yamlLines, epochsRun, tests>>

\* one epoch of the current phase
CN_Epoch ==
    /\ At("CN_Compress")
    /\ CN_InPhase
    /\ epoch < CN_PhaseEpochs(phase)
    /\ epoch' = epoch + 1
    /\ epochsRun' = [epochsRun EXCEPT ![phase] = @ + 1]
    /\ UNCHANGED <<keysRead, wkVars, qVars, evalVars,
                   pc, status, err, ran, phase, pass, batch, envVars, cfgVars,
                   modelVars, dataVars, ctorVars, ftVars, yamlLines, phaseLog,
                   tests>>

\* prints "<phase> done", then "starting <next phase>"
CN_NextPhase ==
    /\ At("CN_Compress")
    /\ CN_InPhase
    /\ epoch = CN_PhaseEpochs(phase)
    /\ CN_PhaseIndex(phase) < Len(CN_Phases)
    /\ LET next == CN_Phases[CN_PhaseIndex(phase) + 1] IN
          /\ phase' = next
          /\ phaseLog' = phaseLog \o << [phase |-> phase, what |-> "done"],
                                        [phase |-> next, what |-> "starting"] >>
    /\ epoch' = 0
    /\ UNCHANGED <<keysRead, wkVars, qVars, evalVars,
                   pc, status, err, ran, pass, batch, envVars, cfgVars,
                   modelVars, dataVars, ctorVars, ftVars, yamlLines, epochsRun,
                   tests>>

\* prints "finetuning done" and returns
CN_CompressReturn ==
    /\ At("CN_Compress")
    /\ CN_InPhase
    /\ epoch = CN_PhaseEpochs(phase)
    /\ CN_PhaseIndex(phase) = Len(CN_Phases)
    /\ phaseLog' = Append(phaseLog, [phase |-> phase, what |-> "done"])
    /\ phase' = "returned"
    /\ Advance
    /\ UNCHANGED <<keysRead, wkVars, qVars, evalVars,
                   ran, epoch, pass, batch, envVars, cfgVars, modelVars,
                   dataVars, ctorVars, ftVars, yamlLines, epochsRun, tests>>

----------------------------------------------------------------------------
(* BitSplit notebook                                                       *)

\* cell "Load Datasets": DatasetFactory.create_dataset(val_fraction = 0.2)
BS_CreateDataset ==
    /\ At("BS_CreateDataset")
    /\ Started("BS_CreateDataset")
    /\ \/ /\ cifar' = Bundle(trainN, testN, BS_ValPercent)
          /\ Advance
       \/ /\ Raise("RuntimeError")
          /\ UNCHANGED cifar
    /\ UNCHANGED <<keysRead, wkVars, qVars, evalVars,
                   envVars, cfgVars, modelVars, loaders, ctorVars, loopVars,
                   ftVars, cnVars, tests>>

\* cell "Define Dataloaders": three DataLoader(..., batch_size=128)
BS_DefineLoaders ==
    /\ At("BS_DefineLoaders")
    /\ Started("BS_DefineLoaders")
    /\ loaders' = MakeLoaders(cifar, BS_BatchSize, BS_NumWorkers)
    /\ keysRead' = BS_Keys
    /\ Advance
    /\ UNCHANGED <<wkVars, qVars, evalVars,
                   envVars, cfgVars, modelVars, cifar, ctorVars, loopVars,
                   ftVars, cnVars, tests>>

\* cell "Load Pretrained Model", first statement: resnet.make_resnet50(100,32)
BS_MakeModel ==
    /\ At("BS_MakeModel")
    /\ Started("BS_MakeModel")
    /\ modelsMade' = TRUE
    /\ Advance
    /\ UNCHANGED <<keysRead, wkVars, qVars, evalVars,
                   envVars, cfgVars, weightsBound, pretrained, dataVars,
                   ctorVars, loopVars, ftVars, cnVars, tests>>

\* same cell: torch.load, then res50_model.load_state_dict
BS_LoadWeights ==
    /\ At("BS_LoadWeights")
    /\ Started("BS_LoadWeights")
    /\ \/ /\ weightsBound' = TRUE
          /\ pretrained' = TRUE
          /\ Advance
       \/ /\ Raise("FileNotFoundError")
          /\ UNCHANGED <<weightsBound, pretrained>>
       \/ /\ weightsBound' = TRUE
          /\ Raise("RuntimeError")
          /\ UNCHANGED pretrained
    /\ UNCHANGED <<keysRead, wkVars, qVars, evalVars,
                   envVars, cfgVars, modelsMade, dataVars, ctorVars, loopVars,
                   ftVars, cnVars, tests>>

\* assert kwargs['W_BUDGET'] in config['W_ARGS']
BS_Supported(g, w) == g["W_BUDGET"] \in DOMAIN w

\* (the cell with the CALIB_BATCHES line placed before the assert)
BS_ConfigCell_OverrideFirst(doc) ==
    LET g == doc.GENERAL
        w == doc.W_ARGS
    IN  IF "W_BUDGET" \notin DOMAIN g
          THEN [kwargs |-> SetKey(g, "CALIB_BATCHES", CalibOverride),
                err |-> "KeyError"]
          ELSE IF ~BS_Supported(g, w)
            THEN [kwargs |-> SetKey(g, "CALIB_BATCHES", CalibOverride),
                  err |-> "AssertionError"]
            ELSE [kwargs |-> SetKey(Overlay(g, w[g["W_BUDGET"]]),
                                    "CALIB_BATCHES", CalibOverride),
                  err |-> "none"]

\* cell "Load Method Config", after yaml.safe_load returned doc: the value
\* bound to kwargs when the cell ends, and the exception that ended it
BS_ConfigCell(doc) ==
    LET g == doc.GENERAL
        w == doc.W_ARGS
    IN  IF "W_BUDGET" \notin DOMAIN g
          THEN [kwargs |-> g, err |-> "KeyError"]
          ELSE IF ~BS_Supported(g, w)
            THEN [kwargs |-> g, err |-> "AssertionError"]
            ELSE [kwargs |-> SetKey(Overlay(g, w[g["W_BUDGET"]]),
                                    "CALIB_BATCHES", CalibOverride),
                  err |-> "none"]

\* kwargs is config['GENERAL'] itself, so the document sees its updates
BS_LoadConfig ==
    /\ At("BS_LoadConfig")
    /\ Started("BS_LoadConfig")
    /\ \/ /\ Raise("FileNotFoundError")
          /\ UNCHANGED <<config, kwargs>>
       \/ LET r == BS_ConfigCell(yamlDoc) IN
             /\ kwargs' = r.kwargs
             /\ config' = [yamlDoc EXCEPT !.GENERAL = r.kwargs]
             /\ IF r.err = "none" THEN Advance ELSE Raise(r.err)
    /\ UNCHANGED <<keysRead, wkVars, qVars, evalVars,
                   envVars, data_loaded, modelVars, dataVars, ctorVars,
                   loopVars, ftVars, cnVars, tests>>

\* cell "Quantization Method: Bitsplit", first statement:
\* quantizer = quantize.bitsplit.BitSplit(res50_model, dataloaders, **kwargs)
BS_Construct ==
    /\ At("BS_Construct")
    /\ Started("BS_Construct")
    /\ constructed' = TRUE
    /\ ctorKwargs' = kwargs
    /\ ctorPretrained' = pretrained
    /\ Advance
    /\ UNCHANGED <<keysRead, wkVars, qVars, evalVars,
                   envVars, cfgVars, modelVars, dataVars, loopVars, ftVars,
                   cnVars, tests>>

\* same cell: quantizer.test(model=res50_model, dataloader=dataloaders['test'],
\* device=torch.device('cuda:0'))
BS_TestBefore ==
    /\ At("BS_TestBefore")
    /\ Started("BS_TestBefore")
    /\ tests' = Append(tests, [model |-> "res50_model", loader |-> "test",
                               device |-> "cuda:0", phase |-> phase])
    /\ Advance
    /\ UNCHANGED <<keysRead, wkVars, qVars, evalVars,
                   envVars, cfgVars, modelVars, dataVars, ctorVars, loopVars,
                   ftVars, cnVars>>

\* same cell: qmodel = quantizer.compress_model(); prints
\* "==> Starting weight quantization"
BS_CompressModel ==
    /\ At("BS_Compress")
    /\ phase = "idle"
    /\ Started("BS_Compress")
    /\ phase' = "weight_quantization"
    /\ UNCHANGED <<keysRead, wkVars, qVars, evalVars,
                   pc, status, err, epoch, pass, batch, envVars, cfgVars,
                   modelVars, dataVars, ctorVars, ftVars, cnVars, tests>>

\* one step of the progress bar under "==> Starting weight quantization"
BS_QuantizeWeights ==
    /\ At("BS_Compress")
    /\ phase = "weight_quantization"
    /\ wqDone < NumWQLayers
    /\ wqDone' = wqDone + 1
    /\ UNCHANGED <<keysRead, wkVars, aqDone, evalVars,
                   pc, status, err, ran, loopVars, envVars, cfgVars,
                   modelVars, dataVars, ctorVars, ftVars, cnVars, tests>>

\* the weight progress bar is full
BS_WeightsFinished == wqDone = NumWQLayers

\* prints "==> Starting '8-bit' activation quantization"
BS_StartActQuant ==
    /\ At("BS_Compress")
    /\ phase = "weight_quantization"
    /\ BS_WeightsFinished
    /\ phase' = "activation_quantization"
    /\ UNCHANGED <<keysRead, wkVars, qVars, evalVars,
                   pc, status, err, ran, epoch, pass, batch, envVars, cfgVars,
                   modelVars, dataVars, ctorVars, ftVars, cnVars, tests>>

\* one step of the progress bar under "==> Starting '8-bit' activation
\* quantization"
BS_QuantizeActs ==
    /\ At("BS_Compress")
    /\ phase = "activation_quantization"
    /\ aqDone < NumAQLayers
    /\ aqDone' = aqDone + 1
    /\ UNCHANGED <<keysRead, wkVars, wqDone, evalVars,
                   pc, status, err, ran, loopVars, envVars, cfgVars,
                   modelVars, dataVars, ctorVars, ftVars, cnVars, tests>>

\* compress_model returns the quantized model, bound to qmodel
BS_CompressReturn ==
    /\ At("BS_Compress")
    /\ phase = "activation_quantization"
    /\ aqDone = NumAQLayers
    /\ phase' = "returned"
    /\ Advance
    /\ UNCHANGED <<keysRead, wkVars, qVars, evalVars,
                   ran, epoch, pass, batch, envVars, cfgVars, modelVars,
                   dataVars, ctorVars, ftVars, cnVars, tests>>

\* cell: quantizer.test(model=qmodel, dataloader=dataloaders['test'], ...)
BS_TestAfter ==
    /\ At("BS_TestAfter")
    /\ Started("BS_TestAfter")
    /\ tests' = Append(tests, [model |-> "qmodel", loader |-> "test",
                               device |-> "cuda:0", phase |-> phase])
    /\ Advance
    /\ UNCHANGED <<keysRead, wkVars, qVars, evalVars,
                   envVars, cfgVars, modelVars, dataVars, ctorVars, loopVars,
                   ftVars, cnVars>>

----------------------------------------------------------------------------
(* The run                                                                 *)

Next ==
    \/ FT_CreateDataset \/ FT_DefineLoaders \/ FT_CreateModels
    \/ FT_LoadTeacher \/ FT_LoadConfig \/ FT_Construct
    \/ FT_CompressModel \/ FT_ParaEpochStart \/ FT_ParaBatch
    \/ FT_ParaEpochEnd \/ FT_StartStudent \/ FT_StudentEpochStart
    \/ FT_StudentTrainBatch \/ FT_StudentTrainEnd \/ FT_StudentValBatch
    \/ FT_StudentEpochEnd \/ FT_CompressReturn \/ FT_Evaluate
    \/ FT_EvalBatch \/ FT_EvalScore \/ DL_WorkerFetch
    \/ CN_WriteYaml \/ CN_LoadConfig \/ CN_CreateModel \/ CN_FetchWeights
    \/ CN_CreateDataset \/ CN_DefineLoaders \/ CN_Construct
    \/ CN_CompressModel \/ CN_Epoch \/ CN_NextPhase \/ CN_CompressReturn
    \/ BS_CreateDataset \/ BS_DefineLoaders \/ BS_MakeModel \/ BS_LoadWeights
    \/ BS_LoadConfig \/ BS_Construct \/ BS_TestBefore
    \/ BS_CompressModel \/ BS_QuantizeWeights \/ BS_StartActQuant
    \/ BS_QuantizeActs \/ BS_CompressReturn
    \/ BS_TestAfter

Spec == Init /\ [][Next]_vars

\* A compress_model call that is running keeps running, and so do the
\* data-loader workers it waits for: a step of the call that can be taken
\* is eventually taken.
FT_CompressStep ==
    \/ FT_ParaEpochStart \/ FT_ParaBatch \/ FT_ParaEpochEnd
    \/ FT_StartStudent \/ FT_StudentEpochStart \/ FT_StudentTrainBatch
    \/ FT_StudentTrainEnd \/ FT_StudentValBatch \/ FT_StudentEpochEnd
    \/ FT_CompressReturn \/ DL_WorkerFetch

FairSpec == Spec /\ WF_vars(FT_CompressStep)

\* The dataset and data-loader cells alone, run on training and test sets
\* of more sizes, the sizes of CIFAR (50000 and 10000) among them.  The
\* training-set sizes are those that val_fraction divides without a rest.
SplitTrainSizes == {10, 60, 130, 300, 640, 1280, 1400, 12800, 49990, 50000}
SplitTestSizes == {200, 10000}

SplitInit ==
    /\ nb \in Notebooks
    /\ trainN \in SplitTrainSizes
    /\ testN \in SplitTestSizes
    /\ yamlDoc = NoDict
    /\ Fresh

SplitNext ==
    \/ FT_CreateDataset \/ FT_DefineLoaders
    \/ CN_WriteYaml \/ CN_LoadConfig \/ CN_CreateModel \/ CN_FetchWeights
    \/ CN_CreateDataset \/ CN_DefineLoaders
    \/ BS_CreateDataset \/ BS_DefineLoaders

SplitSpec == SplitInit /\ [][SplitNext]_vars

----------------------------------------------------------------------------
(* Properties                                                              *)

Range(q) == { q[i] : i \in 1..Len(q) }
Last(q) == q[Len(q)]
IsPrefix(a, b) == Len(a) <= Len(b) /\ SubSeq(b, 1, Len(a)) = a

\* The pipeline step of the specification's list that a notebook step is
\* part of.
Kind(s) ==
    CASE s \in {"FT_CreateDataset", "FT_DefineLoaders", "CN_CreateDataset",
                "CN_DefineLoaders", "BS_CreateDataset", "BS_DefineLoaders"}
             -> "dataset"
      [] s \in {"FT_CreateModels", "CN_CreateModel", "BS_MakeModel"} -> "model"
      [] s \in {"FT_LoadTeacher", "CN_FetchWeights", "BS_LoadWeights"} -> "weights"
      [] s \in {"FT_LoadConfig", "CN_WriteYaml", "CN_LoadConfig", "BS_LoadConfig"}
             -> "config"
      [] s \in {"FT_Construct", "CN_Construct", "BS_Construct"} -> "construct"
      [] s \in {"FT_Compress", "CN_Compress", "BS_Compress"} -> "compress"
      [] s \in {"FT_Evaluate", "BS_TestBefore", "BS_TestAfter"} -> "evaluate"

RECURSIVE KindsOf(_)
\* The pipeline steps started so far, a run of notebook steps of one
\* pipeline step counted once.
KindsOf(q) ==
    IF q = <<>> THEN <<>>
    ELSE LET r == KindsOf(SubSeq(q, 1, Len(q) - 1))
             k == Kind(Last(q))
         IN  IF r # <<>> /\ Last(r) = k THEN r ELSE Append(r, k)

PipelineOrder ==
    << "dataset", "model", "weights", "config", "construct", "compress",
       "evaluate" >>

OnceEach == \A i, j \in 1..Len(ran) : ran[i] = ran[j] => i = j

\* C1 as stated: in every notebook the seven steps run once each in the
\* order dataset, model, weights, configuration, construction,
\* compress_model, evaluation.
C1_SameOrderEverywhere ==
    /\ OnceEach
    /\ IsPrefix(KindsOf(ran), PipelineOrder)
    /\ status = "done" => KindsOf(ran) = PipelineOrder

OrderOf(n) ==
    CASE n = "FT" -> PipelineOrder
      [] n = "CN" -> << "config", "model", "weights", "dataset", "construct",
                        "compress" >>
      [] n = "BS" -> << "dataset", "model", "weights", "config", "construct",
                        "evaluate", "compress", "evaluate" >>

\* C1 amended: every step of a notebook runs once; FactorTransfer follows the
\* stated order; BitSplit follows it with one more evaluation between the
\* construction and compress_model; ChipNet parses the configuration first,
\* builds the datasets after the weights are fetched and has no evaluation
\* step of its own.
C1_OrderPerNotebook ==
    /\ OnceEach
    /\ IsPrefix(KindsOf(ran), OrderOf(nb))
    /\ status = "done" => KindsOf(ran) = OrderOf(nb)

C1_Witness ==
    /\ nb = "BS" /\ status = "done"
    /\ KindsOf(ran) = OrderOf("BS")

\* C2 as stated: the model handed to the constructor of the compression
\* algorithm has had the fetched pretrained weights loaded into it.
C2_PretrainedBeforeConstruct == constructed => ctorPretrained

\* C3: an exception in a step ends the run there: nothing runs after it,
\* and after a failed dataset, weights or configuration step the
\* compression object does not exist and compress_model was not called.
C3_FailureStopsRun ==
    /\ [](err # "none" /\ Kind(Last(ran)) \in {"dataset", "weights", "config"}
            => ~constructed /\ phase = "idle")
    /\ [][err # "none" => UNCHANGED vars]_vars

C3_Witness ==
    /\ nb = "FT" /\ status = "failed" /\ err = "RuntimeError"
    /\ Last(ran) = "FT_LoadTeacher"
    /\ ~constructed /\ phase = "idle"

BS_ConfigRead ==
    nb = "BS" /\ "BS_LoadConfig" \in Range(ran) /\ err # "FileNotFoundError"

\* C4: when GENERAL.W_BUDGET is no key of W_ARGS the BitSplit configuration
\* step fails on its assertion with kwargs holding exactly the entries of
\* GENERAL (CALIB_BATCHES as in the file), and no BitSplit object is made.
C4_AssertLeavesGeneral ==
    (/\ BS_ConfigRead
     /\ "W_BUDGET" \in DOMAIN yamlDoc.GENERAL
     /\ yamlDoc.GENERAL["W_BUDGET"] \notin DOMAIN yamlDoc.W_ARGS)
    => /\ status = "failed" /\ err = "AssertionError"
       /\ kwargs = yamlDoc.GENERAL
       /\ ~constructed

C4_Witness ==
    /\ BS_ConfigRead
    /\ err = "AssertionError"
    /\ "CALIB_BATCHES" \in DOMAIN yamlDoc.GENERAL
    /\ yamlDoc.GENERAL["CALIB_BATCHES"] # CalibOverride
    /\ kwargs["CALIB_BATCHES"] = yamlDoc.GENERAL["CALIB_BATCHES"]

\* The mapping printed by the ChipNet notebook after yaml.safe_load.
CN_RecordedConfig ==
    [CHIPNET_ARGS |-> [A |-> 10], PRETRAIN |-> [EPOCHS |-> 1],
     PRUNE |-> [EPOCHS |-> 1], FINETUNE |-> [EPOCHS |-> 2]]

\* C5: FactorTransfer and ChipNet are constructed with exactly the mapping
\* parsed from the YAML file, and the mapping is the same when the
\* FactorTransfer evaluation reads log_dir from it.
C5_KwargsAreTheFile ==
    /\ (nb = "FT" /\ constructed)
          => /\ ctorKwargs = yamlDoc
             /\ "FT_Evaluate" \in Range(ran) => data_loaded = yamlDoc
    /\ (nb = "CN" /\ constructed) => ctorKwargs = CN_RecordedConfig

C5_Witness ==
    /\ nb = "FT" /\ status = "done"
    /\ evalLoaded.exists
    /\ data_loaded = yamlDoc /\ ctorKwargs = yamlDoc

\* C6: when W_BUDGET is a key of W_ARGS, BitSplit is constructed with the
\* GENERAL section overlaid with W_ARGS[W_BUDGET], the W_ARGS entry winning,
\* and CALIB_BATCHES set to 2 whatever the file says.
C6_KwargsOverlay ==
    (/\ BS_ConfigRead
     /\ "W_BUDGET" \in DOMAIN yamlDoc.GENERAL
     /\ yamlDoc.GENERAL["W_BUDGET"] \in DOMAIN yamlDoc.W_ARGS)
    => LET g == yamlDoc.GENERAL
           o == yamlDoc.W_ARGS[g["W_BUDGET"]]
           ok(d) ==
              /\ DOMAIN d = (DOMAIN g) \cup (DOMAIN o) \cup {"CALIB_BATCHES"}
              /\ d["CALIB_BATCHES"] = 2
              /\ \A k \in (DOMAIN d) \ {"CALIB_BATCHES"} :
                    d[k] = IF k \in DOMAIN o THEN o[k] ELSE g[k]
       IN  /\ err = "none"
           /\ ok(kwargs)
           /\ constructed => ok(ctorKwargs)

C6_Witness ==
    /\ BS_ConfigRead /\ constructed
    /\ "W_BUDGET" \in DOMAIN yamlDoc.GENERAL
    /\ yamlDoc.GENERAL["W_BUDGET"] \in DOMAIN yamlDoc.W_ARGS
    /\ LET g == yamlDoc.GENERAL
           o == yamlDoc.W_ARGS[g["W_BUDGET"]]
       IN  /\ "W_BITS" \in (DOMAIN g) \cap (DOMAIN o)
           /\ g["W_BITS"] # o["W_BITS"]
           /\ ctorKwargs["W_BITS"] = o["W_BITS"]
           /\ "CALIB_BATCHES" \in (DOMAIN g) \cap (DOMAIN o)
           /\ g["CALIB_BATCHES"] = 4 /\ o["CALIB_BATCHES"] = 4
           /\ ctorKwargs["CALIB_BATCHES"] = 2


FT_FileParaEpochs == yamlDoc.PARAPHRASER.EPOCHS
FT_FileEpochs == yamlDoc.DISTILL_ARGS.EPOCHS

\* C7: FactorTransfer.compress_model trains the paraphraser first: all
\* PARAPHRASER.EPOCHS paraphraser epochs are finished when student training
\* starts, and none runs afterwards.
C7_ParaphraserFirst ==
    nb = "FT" =>
       /\ paraDone <= FT_FileParaEpochs
       /\ phase \in {"idle", "paraphraser"} => epochLog = <<>> /\ trainSeen = 0
       /\ phase \in {"student", "returned"} => paraDone = FT_FileParaEpochs

C7_Witness ==
    /\ nb = "FT" /\ phase = "student"
    /\ trainSeen > 0
    /\ FT_FileParaEpochs = 2 /\ paraDone = 2

\* C8: FactorTransfer.compress_model runs the student epochs 1 .. EPOCHS in
\* order, each a full pass over the train loader followed by a full pass over
\* the val loader, and then returns.
C8_StudentEpochs ==
    /\ [](nb = "FT" =>
            /\ Len(epochLog) <= FT_FileEpochs
            /\ \A i \in 1..Len(epochLog) :
                  /\ epochLog[i].epoch = i
                  /\ epochLog[i].train = loaders.train
                  /\ epochLog[i].val = loaders.val
            /\ pass = "val" => trainSeen = loaders.train
            /\ phase = "returned" => Len(epochLog) = FT_FileEpochs)
    /\ (nb = "FT" /\ phase \in {"paraphraser", "student"}) ~> (phase = "returned")

C8_Witness ==
    /\ nb = "FT" /\ phase = "returned"
    /\ Len(epochLog) = 2
    /\ loaders.train > 1 /\ loaders.val > 1
    /\ epochLog[2].train = loaders.train /\ epochLog[2].val = loaders.val

FT_File == ckpt[yamlDoc.log_dir]

\* C9: the checkpoint ./checkpoints/<log_dir>.pth is written after an epoch
\* only when the epoch's validation result is better than that of every
\* earlier epoch; it holds the state of the epoch with the best validation
\* result so far, and that is what the evaluation step loads.
C9_CheckpointIsBest ==
    nb = "FT" =>
       /\ \A i \in 1..Len(epochLog) :
             epochLog[i].saved =>
                \A j \in 1..(i - 1) : epochLog[j].acc < epochLog[i].acc
       /\ FT_File.exists =>
             /\ \E i \in 1..Len(epochLog) :
                   /\ FT_File.epoch = epochLog[i].epoch
                   /\ FT_File.acc = epochLog[i].acc
             /\ \A j \in 1..Len(epochLog) : epochLog[j].acc <= FT_File.acc
       /\ \A d \in LogDirs \ {yamlDoc.log_dir} : ~ckpt[d].exists
       /\ evalLoaded.exists => evalLoaded = FT_File

C9_Witness ==
    /\ nb = "FT" /\ status = "done"
    /\ Len(epochLog) = 2
    /\ epochLog[2].acc < epochLog[1].acc
    /\ evalLoaded.exists /\ evalLoaded.epoch = 1
    /\ evalLoaded.acc = epochLog[1].acc

CN_Banner(p, w) == [phase |-> p, what |-> w]

CN_ExpectedBanners ==
    << CN_Banner("PRETRAIN", "starting"), CN_Banner("PRETRAIN", "done"),
       CN_Banner("PRUNE", "starting"), CN_Banner("PRUNE", "done"),
       CN_Banner("FINETUNE", "starting"), CN_Banner("FINETUNE", "done") >>

\* C10: ChipNet.compress_model runs pretraining, pruning and finetuning once
\* each in this order, a phase starting after the one before it reported
\* done, with PRETRAIN.EPOCHS, PRUNE.EPOCHS and FINETUNE.EPOCHS epochs:
\* 1, 1 and 2 for the file the notebook writes.
C10_PhasesInOrder ==
    nb = "CN" =>
       /\ IsPrefix(phaseLog, CN_ExpectedBanners)
       /\ phase = "returned" => phaseLog = CN_ExpectedBanners
       /\ \A p \in DOMAIN epochsRun :
             /\ CN_Banner(p, "starting") \notin Range(phaseLog) => epochsRun[p] = 0
             /\ CN_Banner(p, "done") \in Range(phaseLog) =>
                   /\ epochsRun[p] = data_loaded[p]["EPOCHS"]
                   /\ epochsRun[p] = CN_RecordedConfig[p]["EPOCHS"]

C10_Witness ==
    /\ nb = "CN" /\ status = "done" /\ phase = "returned"
    /\ epochsRun["PRETRAIN"] = 1 /\ epochsRun["PRUNE"] = 1
    /\ epochsRun["FINETUNE"] = 2

\* C12: in the BitSplit notebook the accuracy of the full-precision model
\* is measured before compress_model is called; inside compress_model
\* every layer's weights are quantized before the first layer's activations
\* are; the accuracy of the model compress_model returned is measured after
\* it returned, on the same loader and device as the first measurement.
C12_MeasureQuantizeMeasure ==
    /\ [](nb = "BS" =>
            /\ Len(tests) <= 2
            /\ phase # "idle" =>
                  /\ Len(tests) >= 1
                  /\ tests[1].model = "res50_model"
                  /\ tests[1].phase = "idle"
            /\ (phase = "activation_quantization" \/ aqDone > 0) =>
                  wqDone = NumWQLayers
            /\ phase = "returned" => aqDone = NumAQLayers
            /\ Len(tests) = 2 =>
                  /\ tests[2].model = "qmodel"
                  /\ tests[2].phase = "returned"
                  /\ tests[2].loader = tests[1].loader
                  /\ tests[2].device = tests[1].device)
    /\ [][/\ wqDone' # wqDone => phase = "weight_quantization" /\ aqDone = 0
          /\ aqDone' # aqDone => wqDone = NumWQLayers /\ wqDone' = wqDone]_vars

C12_Witness ==
    /\ nb = "BS" /\ status = "done"
    /\ wqDone = NumWQLayers /\ aqDone = NumAQLayers
    /\ Len(tests) = 2
    /\ tests[1].phase = "idle" /\ tests[2].phase = "returned"

\* The steps of the notebook that are executing: the cell the kernel has
\* started and that has not returned, and the compress_model call that has
\* been entered and has not returned.
CompressStep(n) ==
    CASE n = "FT" -> "FT_Compress" [] n = "CN" -> "CN_Compress"
      [] n = "BS" -> "BS_Compress"

Executing ==
    (IF status = "running" /\ Len(ran) = pc THEN {ran[pc]} ELSE {})
    \cup (IF status = "running" /\ phase \notin {"idle", "returned"}
            THEN {CompressStep(nb)} ELSE {})

NumWorkersOf(n) ==
    CASE n = "FT" -> FT_NumWorkers [] n = "CN" -> CN_NumWorkers
      [] n = "BS" -> BS_NumWorkers

\* C13: a notebook has one thread of control: at most one of its steps is
\* executing at any moment and a step starts only when none is executing.
\* The only other processes are the data-loader workers: num_workers of
\* them (2 in FactorTransfer, none in ChipNet and BitSplit), alive only
\* while a loader is iterated, and a step of a worker changes nothing but
\* the queue of fetched batches.
C13_OneThreadOfControl ==
    /\ [](/\ Cardinality(Executing) <= 1
          /\ Len(ran) \in {pc - 1, pc}
          /\ NumWorkersOf("FT") = 2 /\ NumWorkersOf("CN") = 0
          /\ NumWorkersOf("BS") = 0
          /\ loaders.num_workers \in {0, NumWorkersOf(nb)}
          /\ workers \in {0, NumWorkersOf(nb)}
          /\ workers > 0 => DL_Iterated.len > 0 /\ Executing # {}
          /\ queued > 0 => workers > 0)
    /\ [][/\ ran' # ran => Executing = {}
          /\ queued' > queued =>
                UNCHANGED <<pc, status, err, ran, cfgVars, modelVars, dataVars,
                            ctorVars, loopVars, ftVars, cnVars, qVars, evalVars,
                            tests, keysRead, workers>>]_vars

C13_Witness ==
    /\ nb = "FT" /\ workers = 2 /\ queued = 2
    /\ Executing = {"FT_Evaluate"}
    /\ evalStep = 0 /\ Len(ran) = pc

\* the class the loaded student scores highest for sample i (the first one
\* when several classes share the highest score)
TopClass(i) ==
    CHOOSE c \in Classes :
       /\ \A d \in Classes : StudentOutput(i)[d] <= StudentOutput(i)[c]
       /\ \A d \in Classes : d < c => StudentOutput(i)[d] < StudentOutput(i)[c]

\* C14: the FactorTransfer evaluation loop visits the batches of the test
\* loader once each in loader order and appends a batch's predictions and
\* its labels in the same iteration; after concatenation prediction i and
\* label i are those of the i-th test sample, and score is the number of
\* test samples whose highest-scoring class is their label over the number
\* of test samples.
C14_ScoreIsTestAccuracy ==
    nb = "FT" =>
       /\ evalStep <= loaders.test
       /\ Len(preds) = evalStep
       /\ \A k \in 1..evalStep :
             /\ DOMAIN preds[k] = DOMAIN TestBatch(k)
             /\ \A j \in DOMAIN preds[k] : preds[k][j].id = TestBatch(k)[j]
       /\ score = NoScore =>
             /\ Len(valid_labels) = evalStep
             /\ predictions = <<>>
             /\ \A k \in 1..evalStep :
                   /\ DOMAIN valid_labels[k] = DOMAIN preds[k]
                   /\ \A j \in DOMAIN preds[k] :
                         valid_labels[k][j].id = preds[k][j].id
       /\ score # NoScore =>
             /\ evalStep = loaders.test
             /\ Len(predictions) = testN
             /\ Len(valid_labels) = testN
             /\ \A i \in 1..testN :
                   /\ predictions[i].id = i
                   /\ valid_labels[i].id = i
                   /\ valid_labels[i].y = Label(i)
             /\ score.total = testN
             /\ score.correct =
                   Cardinality({i \in 1..testN : TopClass(i) = Label(i)})

C14_Witness ==
    /\ nb = "FT" /\ status = "done"
    /\ loaders.test = 2 /\ evalStep = 2
    /\ Len(preds[1]) = FT_BatchSize /\ Len(preds[2]) < FT_BatchSize
    /\ score.total = testN
    /\ 0 < score.correct /\ score.correct < testN

ValPercentOf(n) ==
    CASE n = "FT" -> FT_ValPercent [] n = "CN" -> CN_ValPercent
      [] n = "BS" -> BS_ValPercent

BatchSizeOf(n) ==
    CASE n = "FT" -> FT_BatchSize [] n = "CN" -> CN_BatchSize
      [] n = "BS" -> BS_BatchSize

\* n is the least number of batches of bs samples that hold size samples
IsCeil(n, size, bs) == (n - 1) * bs < size /\ size <= n * bs

\* the batch counts of the recorded runs (the ChipNet notebook never
\* iterates its test loader)
RecordedBatches ==
    [FT |-> [train |-> 352, val |-> 40, test |-> 79],
     CN |-> [train |-> 625, val |-> 157],
     BS |-> [train |-> 313, val |-> 79, test |-> 79]]

\* C15: the val split holds val_fraction of the training set (0.1 in
\* FactorTransfer, 0.2 in ChipNet and BitSplit) and the train split the
\* rest, the two sizes sum to the size of the training set, and every loader
\* has ceil(split size / batch size) batches; for CIFAR's 50000 and 10000
\* samples these are the recorded counts: 352/40/79 at batch size 128,
\* 625/157 at 64 and 313/79/79 at 128.
C15_SplitsAndBatchCounts ==
    /\ ValPercentOf("FT") = 10 /\ ValPercentOf("CN") = 20
    /\ ValPercentOf("BS") = 20
    /\ BatchSizeOf("FT") = 128 /\ BatchSizeOf("CN") = 64
    /\ BatchSizeOf("BS") = 128
    /\ cifar # NoBundle =>
          /\ 100 * cifar.val_size = ValPercentOf(nb) * trainN
          /\ 100 * cifar.train_size = (100 - ValPercentOf(nb)) * trainN
          /\ cifar.train_size + cifar.val_size = trainN
          /\ cifar.test_size = testN
    /\ loaders # NoLoaders =>
          /\ IsCeil(loaders.train, cifar.train_size, BatchSizeOf(nb))
          /\ IsCeil(loaders.val, cifar.val_size, BatchSizeOf(nb))
          /\ IsCeil(loaders.test, cifar.test_size, BatchSizeOf(nb))
          /\ trainN = 50000 =>
                /\ loaders.train = RecordedBatches[nb].train
                /\ loaders.val = RecordedBatches[nb].val
          /\ testN = 10000 /\ nb # "CN" =>
                loaders.test = RecordedBatches[nb].test

C15_Witness ==
    /\ nb = "FT" /\ trainN = 50000 /\ testN = 10000
    /\ cifar.train_size = 45000 /\ cifar.val_size = 5000
    /\ loaders.train = 352 /\ loaders.val = 40 /\ loaders.test = 79

KeysOf(n) == CASE n = "FT" -> FT_Keys [] n = "CN" -> CN_Keys [] n = "BS" -> BS_Keys

\* C16: the three notebooks read the bundle returned by
\* DatasetFactory.create_dataset under the same key names: the key the
\* running notebook's data-loader cell used for the dataset of a split is
\* the key each of the three notebooks uses for it, and likewise the key of
\* the split's sampler.
C16_OneKeySetForAll ==
    keysRead # NoKeys =>
       \A n \in Notebooks : \A s \in Splits :
          /\ keysRead.dataset[s] = KeysOf(n).dataset[s]
          /\ keysRead.sampler[s] = KeysOf(n).sampler[s]

====
